---- MODULE Spec2Model ----
(***************************************************************************)
(* Model of backend/utils.py of the recipe chatbot: the module globals     *)
(* SYSTEM_PROMPT and MODEL_NAME and the wrapper get_agent_response around  *)
(* litellm.completion.                                                     *)
(*                                                                         *)
(* Python lists are objects with identity: `heap` maps a reference (an     *)
(* index) to the current value of a list, so that aliasing                 *)
(* (current_messages = messages) and fresh allocation (list + list) are    *)
(* distinguished.  The message dicts are never written by the wrapper and  *)
(* are modelled as values.  Strings are sequences of one-character         *)
(* strings.                                                                *)
(***************************************************************************)
EXTENDS Integers, Sequences, FiniteSets, TLC

\* ---------------------------------------------------------------- bounds
\* Longest transcript a caller builds from scratch.
MaxLen == 2
\* Longest raw completion text the provider returns.
MaxText == 3
\* Longest transcript a caller reaches by extending a returned one.
MaxHistory == 5

\* ------------------------------------------------------------- constants
\* The dedented instruction text begins and ends with a newline; its body
\* is opaque to the wrapper and is abstracted to one letter.
SYSTEM_PROMPT == <<"\n", "P", "\n">>

DEFAULT_MODEL == "gpt-4o-mini"

\* Characters str.strip() removes (the ones the alphabet below can produce
\* plus the other ASCII whitespace).
Whitespace == {" ", "\t", "\n", "\r"}

\* -------------------------------------------------------- value universes
Chars == {" ", "a"}

Texts == UNION {[1..n -> Chars] : n \in 0..MaxText}

CustomPrompt == <<"c">>
UserText == <<"h", "i">>

Turn(r, c) == [role |-> r, content |-> c]

InputTurns ==
    {Turn("system", CustomPrompt), Turn("system", SYSTEM_PROMPT),
     Turn("user", UserText), Turn("assistant", UserText)}

\* What a caller appends to a returned transcript before the next call.
FurtherTurns == {Turn("user", UserText)}

Transcripts == UNION {[1..n -> InputTurns] : n \in 0..MaxLen}

\* The scenarios of the specification, used by the concurrent runs.
Scenarios ==
    {<<>>,
     <<Turn("user", UserText)>>,
     <<Turn("system", CustomPrompt), Turn("user", UserText)>>}

\* Python values: None, a str, a dict without keys.
None == [type |-> "NoneType"]
Str(s) == [type |-> "str", val |-> s]
EmptyDict == [k \in {} |-> None]

\* One element of completion["choices"]: well-formed, content None,
\* message without content, choice without message.
Choices ==
    {[message |-> [content |-> Str(t)]] : t \in Texts}
        \cup {[message |-> [content |-> None]], [message |-> EmptyDict], EmptyDict}

Decoy == [message |-> [content |-> Str(<<"a", " ">>)]]

\* Responses with a second choice after the top one.
TwoChoices ==
    {[choices |-> <<c, Decoy>>] :
        c \in {[message |-> [content |-> Str(<<>>)]],
               [message |-> [content |-> Str(<<" ", "a">>)]],
               [message |-> [content |-> None]],
               EmptyDict}}

Responses ==
    {[choices |-> <<>>]} \cup {[choices |-> <<c>>] : c \in Choices} \cup TwoChoices

\* The responses the concurrent runs draw from.
FewResponses ==
    {[choices |-> <<>>],
     [choices |-> <<[message |-> [content |-> None]]>>],
     [choices |-> <<[message |-> [content |-> Str(<<" ", "a", " ">>)]]>>],
     [choices |-> <<[message |-> [content |-> Str(<<"a", "a">>)]], Decoy>>]}

\* What litellm.completion raises when the call fails.
ProviderErrors == {"APIConnectionError", "AuthenticationError", "APIError"}

\* Process environments: MODEL_NAME unset, or set.
Environments == {EmptyDict, [MODEL_NAME |-> "gpt-4o"]}

Threads == {"t1", "t2"}
MainThread == "t1"

NoRef == 0
NoCompletion == [unset |-> TRUE]
NoException == "none"

\* ------------------------------------------------------- pure operations
\* os.environ.get(key, default)
EnvironGet(env, key, default) ==
    IF key \in DOMAIN env THEN env[key] ELSE default

\* The module-level read of the model identifier.
ReadModelName(env) == EnvironGet(env, "MODEL_NAME", DEFAULT_MODEL)

\* Variants of the test of line 129: without the role test, and always true.
NeedsSystemPromptWhenEmpty(msgs) == Len(msgs) = 0

NeedsSystemPromptAlways(msgs) == TRUE

\* `not messages or messages[0]["role"] != "system"`
NeedsSystemPrompt(msgs) == Len(msgs) = 0 \/ msgs[1].role # "system"

\* Variant of line 130 with the operands of + exchanged.
PrependSystemLast(h, r) ==
    [heap |-> Append(h, h[r] \o <<Turn("system", SYSTEM_PROMPT)>>),
     ref |-> Len(h) + 1]

\* `[{"role": "system", "content": SYSTEM_PROMPT}] + messages`: a new list.
PrependSystem(h, r) ==
    [heap |-> Append(h, <<Turn("system", SYSTEM_PROMPT)>> \o h[r]),
     ref |-> Len(h) + 1]

\* Variants of line 145: current_messages.append(turn), which writes the
\* list in place, and the operands of + exchanged.
AppendReplyInPlace(h, r, turn) ==
    [heap |-> [h EXCEPT ![r] = Append(@, turn)], ref |-> r]

AppendReplyFirst(h, r, turn) ==
    [heap |-> Append(h, <<turn>> \o h[r]), ref |-> Len(h) + 1]

\* `current_messages + [turn]`: a new list.
AppendReply(h, r, turn) ==
    [heap |-> Append(h, h[r] \o <<turn>>), ref |-> Len(h) + 1]

\* str.strip()
RECURSIVE LStrip(_)
LStrip(s) ==
    IF s # <<>> /\ Head(s) \in Whitespace THEN LStrip(Tail(s)) ELSE s

RECURSIVE RStrip(_)
RStrip(s) ==
    IF s # <<>> /\ s[Len(s)] \in Whitespace
    THEN RStrip(SubSeq(s, 1, Len(s) - 1))
    ELSE s

\* Variant of line 141: .lstrip() in place of .strip().
StripLeft(s) == LStrip(s)

Strip(s) == RStrip(LStrip(s))

\* completion["choices"][0]
TopChoice(resp) == resp.choices[1]

\* The exception raised by
\* completion["choices"][0]["message"]["content"].strip(), or NoException.
ExtractError(resp) ==
    IF Len(resp.choices) = 0 THEN "IndexError"
    ELSE IF "message" \notin DOMAIN TopChoice(resp) THEN "KeyError"
    ELSE IF "content" \notin DOMAIN TopChoice(resp).message THEN "KeyError"
    ELSE IF TopChoice(resp).message.content = None THEN "AttributeError"
    ELSE NoException

\* assistant_reply_content, when the extraction raises nothing.
ReplyContent(resp) == Strip(TopChoice(resp).message.content.val)

\* ----------------------------------------------------------------- state
VARIABLES
    environ,            \* os.environ, as far as the module reads it
    environAtImport,    \* os.environ when the module was imported
    MODEL_NAME,         \* the module global
    heap,               \* list objects: reference -> value
    pc,                 \* per thread: position in get_agent_response
    messages,           \* per thread: the argument (a reference)
    current_messages,   \* per thread: the local (a reference)
    completion,         \* per thread: the local
    updated_messages,   \* per thread: the returned reference
    raised,             \* per thread: the exception that left the function
    given,              \* per thread: value of the argument list at the call
    outbound            \* per thread: the calls made to litellm.completion

globals == <<environ, environAtImport, MODEL_NAME>>
locals == <<messages, current_messages, completion, updated_messages, raised>>
vars ==
    <<environ, environAtImport, MODEL_NAME, heap, pc, messages,
      current_messages, completion, updated_messages, raised, given,
      outbound>>

\* The state after `import backend.utils`: load_dotenv, then the read of
\* MODEL_NAME; no call is in progress.
Init ==
    /\ environ \in Environments
    /\ environAtImport = environ
    /\ MODEL_NAME = ReadModelName(environ)
    /\ heap = <<>>
    /\ pc = [p \in Threads |-> "idle"]
    /\ messages = [p \in Threads |-> NoRef]
    /\ current_messages = [p \in Threads |-> NoRef]
    /\ completion = [p \in Threads |-> NoCompletion]
    /\ updated_messages = [p \in Threads |-> NoRef]
    /\ raised = [p \in Threads |-> NoException]
    /\ given = [p \in Threads |-> <<>>]
    /\ outbound = [p \in Threads |-> <<>>]

\* --------------------------------------------------------------- callers
\* A caller builds the transcript T and calls get_agent_response(T).
Invoke(p, T) ==
    /\ pc[p] = "idle"
    /\ heap' = Append(heap, T)
    /\ messages' = [messages EXCEPT ![p] = Len(heap) + 1]
    /\ given' = [given EXCEPT ![p] = T]
    /\ pc' = [pc EXCEPT ![p] = "entered"]
    /\ UNCHANGED <<globals, current_messages, completion, updated_messages,
                   raised, outbound>>

\* A caller calls get_agent_response on a list that already exists (one
\* another call was given, built or returned).
InvokeShared(p, r) ==
    /\ pc[p] = "idle"
    /\ r \in 1..Len(heap)
    /\ messages' = [messages EXCEPT ![p] = r]
    /\ given' = [given EXCEPT ![p] = heap[r]]
    /\ pc' = [pc EXCEPT ![p] = "entered"]
    /\ UNCHANGED <<globals, heap, current_messages, completion,
                   updated_messages, raised, outbound>>

\* A caller appends a further Turn to the list it got back and calls
\* get_agent_response on it again.
Extend(p, turn) ==
    /\ pc[p] = "returned"
    /\ Len(heap[updated_messages[p]]) < MaxHistory
    /\ heap' = [heap EXCEPT ![updated_messages[p]] = Append(@, turn)]
    /\ messages' = [messages EXCEPT ![p] = updated_messages[p]]
    /\ given' = [given EXCEPT ![p] = Append(heap[updated_messages[p]], turn)]
    /\ current_messages' = [current_messages EXCEPT ![p] = NoRef]
    /\ completion' = [completion EXCEPT ![p] = NoCompletion]
    /\ updated_messages' = [updated_messages EXCEPT ![p] = NoRef]
    /\ outbound' = [outbound EXCEPT ![p] = <<>>]
    /\ pc' = [pc EXCEPT ![p] = "entered"]
    /\ UNCHANGED <<globals, raised>>

\* Something outside the module changes the process environment.
SetEnviron(env) ==
    /\ environ # env
    /\ environ' = env
    /\ UNCHANGED <<environAtImport, MODEL_NAME, heap, pc, locals, given,
                   outbound>>

\* ---------------------------------------------------- get_agent_response
\* Lines 128-132: the system prompt is put first unless it already is.
Normalise(p) ==
    /\ pc[p] = "entered"
    /\ IF NeedsSystemPrompt(heap[messages[p]])
       THEN LET new == PrependSystem(heap, messages[p])
            IN /\ heap' = new.heap
               /\ current_messages' = [current_messages EXCEPT ![p] = new.ref]
       ELSE /\ heap' = heap
            /\ current_messages' = [current_messages EXCEPT ![p] = messages[p]]
    /\ pc' = [pc EXCEPT ![p] = "normalised"]
    /\ UNCHANGED <<globals, messages, completion, updated_messages, raised,
                   given, outbound>>

\* Variant of line 135: the model identifier is looked up in the
\* environment at every call.
RequestReadingEnviron(p) ==
    [model |-> ReadModelName(environ), messages |-> heap[current_messages[p]]]

\* The request litellm.completion is called with.
Request(p) == [model |-> MODEL_NAME, messages |-> heap[current_messages[p]]]

\* One entry of the log of calls: the request and what came back (the
\* response, or the error raised).
Exchange(p, res) == [request |-> Request(p), result |-> res]

\* Lines 134-137, the call returns resp.
CompletionReturns(p, resp) ==
    /\ pc[p] = "normalised"
    /\ outbound' = [outbound EXCEPT ![p] = Append(@, Exchange(p, resp))]
    /\ completion' = [completion EXCEPT ![p] = resp]
    /\ pc' = [pc EXCEPT ![p] = "completed"]
    /\ UNCHANGED <<globals, heap, messages, current_messages,
                   updated_messages, raised, given>>

\* Variants of lines 134-137 for a failing call: the error is caught and
\* the transcript built so far is returned; the call is made again once.
CompletionRaisesFallback(p, err) ==
    /\ pc[p] = "normalised"
    /\ outbound' = [outbound EXCEPT ![p] = Append(@, Exchange(p, [error |-> err]))]
    /\ updated_messages' = [updated_messages EXCEPT ![p] = current_messages[p]]
    /\ pc' = [pc EXCEPT ![p] = "returned"]
    /\ UNCHANGED <<globals, heap, messages, current_messages, completion,
                   raised, given>>

CompletionRaisesRetry(p, err) ==
    /\ pc[p] = "normalised"
    /\ outbound' = [outbound EXCEPT ![p] = Append(@, Exchange(p, [error |-> err]))]
    /\ IF Len(outbound[p]) = 0
       THEN UNCHANGED <<pc, raised>>
       ELSE /\ raised' = [raised EXCEPT ![p] = err]
            /\ pc' = [pc EXCEPT ![p] = "raised"]
    /\ UNCHANGED <<globals, heap, messages, current_messages, completion,
                   updated_messages, given>>

\* Lines 134-137, the call raises err: nothing catches it.
CompletionRaises(p, err) ==
    /\ pc[p] = "normalised"
    /\ outbound' = [outbound EXCEPT ![p] = Append(@, Exchange(p, [error |-> err]))]
    /\ raised' = [raised EXCEPT ![p] = err]
    /\ pc' = [pc EXCEPT ![p] = "raised"]
    /\ UNCHANGED <<globals, heap, messages, current_messages, completion,
                   updated_messages, given>>

\* Variant of lines 139-146: an unusable completion is caught and an empty
\* reply is appended.
ExtractRaisesEmptyReply(p) ==
    /\ pc[p] = "completed"
    /\ ExtractError(completion[p]) # NoException
    /\ LET new == AppendReply(heap, current_messages[p], Turn("assistant", <<>>))
       IN /\ heap' = new.heap
          /\ updated_messages' = [updated_messages EXCEPT ![p] = new.ref]
    /\ pc' = [pc EXCEPT ![p] = "returned"]
    /\ UNCHANGED <<globals, messages, current_messages, completion, raised,
                   given, outbound>>

\* Lines 139-142, the subscripts or .strip() raise: nothing catches it.
ExtractRaises(p) ==
    /\ pc[p] = "completed"
    /\ ExtractError(completion[p]) # NoException
    /\ raised' = [raised EXCEPT ![p] = ExtractError(completion[p])]
    /\ pc' = [pc EXCEPT ![p] = "raised"]
    /\ UNCHANGED <<globals, heap, messages, current_messages, completion,
                   updated_messages, given, outbound>>

\* Lines 139-146: the reply is extracted, stripped, appended and returned.
Reply(p) ==
    /\ pc[p] = "completed"
    /\ ExtractError(completion[p]) = NoException
    /\ LET new == AppendReply(heap, current_messages[p],
                              Turn("assistant", ReplyContent(completion[p])))
       IN /\ heap' = new.heap
          /\ updated_messages' = [updated_messages EXCEPT ![p] = new.ref]
    /\ pc' = [pc EXCEPT ![p] = "returned"]
    /\ UNCHANGED <<globals, messages, current_messages, completion, raised,
                   given, outbound>>

\* ------------------------------------------------------- specifications
\* One caller holding one conversation.
Next ==
    \/ \E T \in Transcripts : Invoke(MainThread, T)
    \/ \E turn \in FurtherTurns : Extend(MainThread, turn)
    \/ Normalise(MainThread)
    \/ \E resp \in Responses : CompletionReturns(MainThread, resp)
    \/ \E err \in ProviderErrors : CompletionRaises(MainThread, err)
    \/ ExtractRaises(MainThread)
    \/ Reply(MainThread)

Spec == Init /\ [][Next]_vars

\* Callers on several threads, one call each, possibly on the same list.
NextThreads ==
    \/ \E env \in Environments : SetEnviron(env)
    \/ \E p \in Threads :
        \/ \E T \in Scenarios : Invoke(p, T)
        \/ \E r \in 1..Len(heap) : InvokeShared(p, r)
        \/ Normalise(p)
        \/ \E resp \in FewResponses : CompletionReturns(p, resp)
        \/ \E err \in ProviderErrors : CompletionRaises(p, err)
        \/ ExtractRaises(p)
        \/ Reply(p)

SpecThreads == Init /\ [][NextThreads]_vars

\* ----------------------------------------------------------- properties
DefaultSystemTurn == [role |-> "system", content |-> SYSTEM_PROMPT]

StartsWithSystem(T) == T # <<>> /\ T[1].role = "system"

\* The transcript with a system Turn ensured first, as the specification
\* describes it.
Normalized(T) == IF StartsWithSystem(T) THEN T ELSE <<DefaultSystemTurn>> \o T

\* c is raw without a whitespace-only prefix and a whitespace-only suffix.
TrimOf(raw, c) ==
    \E i \in 0..Len(raw) : \E j \in i..Len(raw) :
        /\ c = SubSeq(raw, i + 1, j)
        /\ \A k \in 1..i : raw[k] \in Whitespace
        /\ \A k \in (j + 1)..Len(raw) : raw[k] \in Whitespace

NoOuterWhitespace(c) ==
    c = <<>> \/ (c[1] \notin Whitespace /\ c[Len(c)] \notin Whitespace)

\* The response has no usable completion: no choice, a top choice without
\* message or content, or a null content.
Unusable(resp) ==
    \/ resp.choices = <<>>
    \/ /\ resp.choices # <<>>
       /\ \/ "message" \notin DOMAIN resp.choices[1]
          \/ /\ "message" \in DOMAIN resp.choices[1]
             /\ \/ "content" \notin DOMAIN resp.choices[1].message
                \/ /\ "content" \in DOMAIN resp.choices[1].message
                   /\ resp.choices[1].message.content.type = "NoneType"

CallFailed(p) == outbound[p] # <<>> /\ "error" \in DOMAIN outbound[p][1].result

\* C1: a call that returns returns the normalized input, in order and
\* unchanged, followed by exactly one Turn, whose role is "assistant".
C1_OutputIsNormalizedPlusOne ==
    \A p \in Threads :
        pc[p] = "returned" =>
            LET out == heap[updated_messages[p]]
            IN /\ Len(out) = Len(Normalized(given[p])) + 1
               /\ SubSeq(out, 1, Len(out) - 1) = Normalized(given[p])
               /\ out[Len(out)].role = "assistant"

C1_Witness ==
    /\ pc[MainThread] = "returned"
    /\ given[MainThread] = <<>>
    /\ Len(heap[updated_messages[MainThread]]) = 2

\* C2: in every call, fresh or on an extended earlier output, the
\* transcript handed to litellm.completion starts with a system Turn.
C2_SentStartsWithSystem ==
    \A p \in Threads : \A i \in 1..Len(outbound[p]) :
        StartsWithSystem(outbound[p][i].request.messages)

C2_Witness ==
    /\ outbound[MainThread] # <<>>
    /\ Len(given[MainThread]) > MaxLen
    /\ given[MainThread][Len(given[MainThread]) - 1].role = "assistant"

\* C3: for an input that is empty or does not start with a system Turn,
\* what is sent is the default system Turn followed by the input.
C3_DefaultPrepended ==
    \A p \in Threads :
        (outbound[p] # <<>> /\ ~StartsWithSystem(given[p])) =>
            outbound[p][1].request.messages = <<DefaultSystemTurn>> \o given[p]

C3_Witness ==
    /\ outbound[MainThread] # <<>>
    /\ given[MainThread] = <<Turn("user", UserText)>>

\* C4: for an input that starts with a system Turn, the basis is the input
\* itself and it is sent unchanged, whatever that Turn's content and
\* wherever else system Turns occur.
C4_SystemFirstSentVerbatim ==
    \A p \in Threads :
        (pc[p] \notin {"idle", "entered"} /\ StartsWithSystem(given[p])) =>
            /\ current_messages[p] = messages[p]
            /\ outbound[p] # <<>> => outbound[p][1].request.messages = given[p]

C4_Witness ==
    /\ outbound[MainThread] # <<>>
    /\ given[MainThread] =
          <<Turn("system", CustomPrompt), Turn("system", SYSTEM_PROMPT)>>

\* C5: when litellm.completion raises, the call fails with that very
\* error and returns no transcript.
C5_ProviderErrorPropagates ==
    \A p \in Threads :
        CallFailed(p) =>
            /\ pc[p] = "raised"
            /\ raised[p] = outbound[p][1].result.error
            /\ updated_messages[p] = NoRef

C5_Witness ==
    /\ CallFailed(MainThread)
    /\ raised[MainThread] = "AuthenticationError"

\* C6: when the response has no usable completion, the call never
\* returns: it fails with the error of the extraction, and no assistant
\* Turn is appended to any list of the call.
C6_UnusableCompletionFails ==
    \A p \in Threads :
        (completion[p] # NoCompletion /\ Unusable(completion[p])) =>
            /\ pc[p] \in {"completed", "raised"}
            /\ pc[p] = "completed" => (ENABLED ExtractRaises(p)) /\ ~(ENABLED Reply(p))
            /\ pc[p] = "raised" =>
                  raised[p] \in {"IndexError", "KeyError", "AttributeError"}
            /\ updated_messages[p] = NoRef
            /\ heap[messages[p]] = given[p]
            /\ heap[current_messages[p]] = Normalized(given[p])

C6_Witness ==
    /\ pc[MainThread] = "raised"
    /\ completion[MainThread] = [choices |-> <<[message |-> [content |-> None]]>>]
    /\ raised[MainThread] = "AttributeError"

\* C7: a call makes no outbound call before line 134 and exactly one from
\* then on, whether it succeeds or fails.
C7_ExactlyOneOutboundCall ==
    \A p \in Threads :
        IF pc[p] \in {"completed", "returned", "raised"}
        THEN Len(outbound[p]) = 1
        ELSE Len(outbound[p]) = 0

C7_Witness ==
    /\ pc[MainThread] = "raised"
    /\ raised[MainThread] \in ProviderErrors
    /\ Len(outbound[MainThread]) = 1

\* C8: the appended content is the top choice's text without its leading
\* and trailing whitespace, interior unchanged; it neither starts nor ends
\* with whitespace.
C8_ReplyIsTrimmedTopChoice ==
    \A p \in Threads :
        pc[p] = "returned" =>
            LET out == heap[updated_messages[p]]
                raw == completion[p].choices[1].message.content.val
            IN /\ TrimOf(raw, out[Len(out)].content)
               /\ NoOuterWhitespace(out[Len(out)].content)

C8_Witness ==
    /\ pc[MainThread] = "returned"
    /\ completion[MainThread].choices[1].message.content.val = <<" ", "a", " ">>
    /\ heap[updated_messages[MainThread]][Len(heap[updated_messages[MainThread]])]
          = Turn("assistant", <<"a">>)

\* C9: from the call on, the caller's list holds what it held at the
\* call, and the list returned is not the caller's list.
C9_InputListUntouched ==
    \A p \in Threads :
        pc[p] # "idle" =>
            /\ heap[messages[p]] = given[p]
            /\ pc[p] = "returned" => updated_messages[p] # messages[p]

C9_Witness ==
    /\ pc[MainThread] = "returned"
    /\ current_messages[MainThread] = messages[MainThread]

\* C10: under every interleaving, a call sends the normalization of its
\* own input and returns it with the trimmed text of its own completion,
\* and every call uses the model identifier read at import (the default
\* when unset), which never changes.
ModelAtImport ==
    IF "MODEL_NAME" \in DOMAIN environAtImport
    THEN environAtImport.MODEL_NAME
    ELSE "gpt-4o-mini"

C10_CallsIndependent ==
    /\ MODEL_NAME = ModelAtImport
    /\ \A p \in Threads :
        /\ \A i \in 1..Len(outbound[p]) :
              /\ outbound[p][i].request.model = ModelAtImport
              /\ outbound[p][i].request.messages = Normalized(given[p])
        /\ completion[p] # NoCompletion => completion[p] = outbound[p][1].result
        /\ pc[p] = "returned" =>
              LET out == heap[updated_messages[p]]
              IN /\ SubSeq(out, 1, Len(out) - 1) = Normalized(given[p])
                 /\ out[Len(out)].role = "assistant"
                 /\ TrimOf(completion[p].choices[1].message.content.val,
                           out[Len(out)].content)
                 /\ NoOuterWhitespace(out[Len(out)].content)

C10_Witness ==
    /\ pc["t1"] = "returned"
    /\ pc["t2"] = "returned"
    /\ messages["t1"] = messages["t2"]
    /\ completion["t1"] # completion["t2"]
    /\ environ # environAtImport

====
